---------------------------- MODULE Spec2Model ----------------------------
(***************************************************************************)
(* A model of update.py: the incremental harvester of the Monroe County    *)
(* COVID-19 bulletins.  One run of main() reads the archive listing,       *)
(* builds the catalog of bulletins (get_links), downloads the bulletins    *)
(* that are not cached (download_pdfs), reads the last recorded timestamp  *)
(* of the sheet (get_last_update), extracts a row from every cached        *)
(* bulletin after it (parse_pdfs) and appends the rows (append_to_sheet).  *)
(*                                                                         *)
(* Text is modelled word by word: a string is a sequence of tokens, a      *)
(* token is a word, a punctuation mark, a non-ASCII character or one space *)
(* (SP).  File names and sheet timestamps are modelled character by        *)
(* character, so that sorting file names is the lexicographic sort of      *)
(* list.sort().                                                            *)
(*                                                                         *)
(* The sheet keeps column A as it was entered and is written by this       *)
(* program alone; the cache directory holds only the files download_pdf    *)
(* wrote.  A web server that answers with an error page is no failure of   *)
(* requests.get: the page is stored like a bulletin.  The credentials of   *)
(* get_sheet_service are not modelled; a sheet service that cannot be      *)
(* reached ends the run where the sheet is first read.                     *)
(***************************************************************************)
EXTENDS Integers, Sequences, FiniteSets, TLC

VARIABLES
    pc,          \* position of main(): a state of the orchestrator
    runs,        \* number of invocations of main() so far
    listing,     \* the anchors of the archive page this run reads
    links,       \* get_links' dictionary (insertion ordered)
    todo,        \* download_pdfs: the items of links not yet visited
    files,       \* PDF_DIR: file name -> content, kept across runs
    sheet,       \* the rows of the sheet below its header, kept across runs
    last_update, \* the datetime get_last_update returned
    info,        \* the rows parse_pdfs returned
    fetched,     \* history: the urls download_pdf requested in this run
    appends,     \* history: the calls of append_to_sheet in this run
    sheet0,      \* history: the sheet when this run started
    files0,      \* history: the cache when this run started
    prev,        \* history: listing and outcome of the previous run
    failure,     \* why this run aborted ("" while it has not)
    label,       \* the text DateLabelParser is applied to
    parsed,      \* and its result
    txt,         \* the text FieldExtractor is applied to
    vals         \* and the row built from it

vars == <<pc, runs, listing, links, todo, files, sheet, last_update, info,
          fetched, appends, sheet0, files0, prev, failure,
          label, parsed, txt, vals>>

pureVars == <<label, parsed, txt, vals>>

-----------------------------------------------------------------------------
(* Bounds of the model *)

MaxRuns == 3        \* invocations of main() in one behaviour

MaxLinks == 3       \* anchors of a generated listing

MaxSentences == 2   \* sentences of a generated bulletin text

-----------------------------------------------------------------------------
(* Constants of update.py *)

DOMAIN_ROOT == "https://www2.monroecounty.gov"

HREF_ROOT == "/files/health/coronavirus/"

SP == " "

None == "None"

NL == "\n"

PAGE_RULE == "-------------------------------------------------------------------------------"

\* FILE_DT_FMT = "%Y-%m-%d_%H%M" and SHEET_DT_FMT = "%Y-%m-%d %H:%M", as the
\* separators that follow the year, month, day and hour fields.
FILE_DT_FMT == <<"-", "-", "_", "">>

SHEET_DT_FMT == <<"-", "-", " ", ":">>

Digit == <<"0", "1", "2", "3", "4", "5", "6", "7", "8", "9">>

\* ord() of the characters of a file name
Ord == (" " :> 32) @@ ("-" :> 45) @@ ("." :> 46) @@ ("0" :> 48) @@ ("1" :> 49)
       @@ ("2" :> 50) @@ ("3" :> 51) @@ ("4" :> 52) @@ ("5" :> 53) @@ ("6" :> 54)
       @@ ("7" :> 55) @@ ("8" :> 56) @@ ("9" :> 57) @@ (":" :> 58) @@ ("_" :> 95)
       @@ ("d" :> 100) @@ ("f" :> 102) @@ ("p" :> 112)

PDF_EXT == <<".", "p", "d", "f">>

\* datetime.datetime.min
DatetimeMin == <<1, 1, 1, 0, 0>>

-----------------------------------------------------------------------------
(* Sequences and dictionaries *)

Range(s) == {s[i] : i \in 1..Len(s)}

RECURSIVE Flatten(_)
Flatten(ss) == IF ss = <<>> THEN <<>> ELSE Head(ss) \o Flatten(Tail(ss))

\* A dict is a sequence of <<key, value>> in insertion order.
DictKeys(d) == [i \in 1..Len(d) |-> d[i][1]]

DictHas(d, k) == \E i \in 1..Len(d) : d[i][1] = k

DictGet(d, k) == d[CHOOSE i \in 1..Len(d) : d[i][1] = k][2]

\* d[k] = v: an existing key keeps its place, a new key goes last
DictSet(d, k, v) ==
    IF DictHas(d, k)
    THEN [i \in 1..Len(d) |-> IF d[i][1] = k THEN <<k, v>> ELSE d[i]]
    ELSE Append(d, <<k, v>>)

\* del d[k]
DictDel(d, k) ==
    LET keep(e) == e[1] # k IN SelectSeq(d, keep)

-----------------------------------------------------------------------------
(* datetime: <<year, month, day, hour, minute>> *)

IsLeap(y) == (y % 4 = 0 /\ y % 100 # 0) \/ y % 400 = 0

DaysIn(y, m) ==
    IF m = 2 THEN (IF IsLeap(y) THEN 29 ELSE 28)
    ELSE IF m \in {4, 6, 9, 11} THEN 30 ELSE 31

\* the datetime constructor accepts the fields
ValidDate(y, m, d) == m \in 1..12 /\ d >= 1 /\ d <= DaysIn(y, m)

RECURSIVE TupleLess(_, _)
TupleLess(a, b) ==
    IF a = <<>> \/ b = <<>> THEN a = <<>> /\ b # <<>>
    ELSE IF Head(a) # Head(b) THEN Head(a) < Head(b)
    ELSE TupleLess(Tail(a), Tail(b))

\* dt1 <= dt2 on datetimes
DtLeq(a, b) == a = b \/ TupleLess(a, b)

\* the decimal digits of n, zero padded to width w (wider when n needs it)
RECURSIVE Pad(_, _)
Pad(n, w) ==
    IF n < 10 /\ w <= 1 THEN <<Digit[n + 1]>>
    ELSE Append(Pad(n \div 10, w - 1), Digit[(n % 10) + 1])

\* dt.strftime(fmt) for the two formats of the program
Strftime(dt, fmt) ==
    LET sep(i) == IF fmt[i] = "" THEN <<>> ELSE <<fmt[i]>>
    IN Pad(dt[1], 4) \o sep(1) \o Pad(dt[2], 2) \o sep(2) \o Pad(dt[3], 2)
       \o sep(3) \o Pad(dt[4], 2) \o sep(4) \o Pad(dt[5], 2)

IsDigit(c) == \E n \in 1..10 : Digit[n] = c

DigitVal(c) == (CHOOSE n \in 1..10 : Digit[n] = c) - 1

RECURSIVE ParseNum(_)
ParseNum(cs) ==
    IF cs = <<>> THEN 0
    ELSE 10 * ParseNum(SubSeq(cs, 1, Len(cs) - 1)) + DigitVal(cs[Len(cs)])

\* datetime.strptime(s, fmt) for the two formats of the program, on a
\* sequence of characters: fixed width fields and their separators.
\* [ok |-> FALSE] stands for the ValueError.
StrptimeChars(s, fmt) ==
    LET w3  == IF fmt[3] = "" THEN 0 ELSE 1
        w4  == IF fmt[4] = "" THEN 0 ELSE 1
        num(a, b) == ParseNum(SubSeq(s, a, b))
        digits(a, b) == \A i \in a..b : IsDigit(s[i])
        h0  == 11 + w3
        m0  == 13 + w3 + w4
    IN IF /\ Len(s) = 14 + w3 + w4
          /\ digits(1, 4) /\ s[5] = fmt[1]
          /\ digits(6, 7) /\ s[8] = fmt[2]
          /\ digits(9, 10)
          /\ (w3 = 1 => s[11] = fmt[3])
          /\ digits(h0, h0 + 1)
          /\ (w4 = 1 => s[h0 + 2] = fmt[4])
          /\ digits(m0, m0 + 1)
          /\ num(1, 4) >= 1
          /\ ValidDate(num(1, 4), num(6, 7), num(9, 10))
          /\ num(h0, h0 + 1) <= 23 /\ num(m0, m0 + 1) <= 59
       THEN [ok |-> TRUE,
             dt |-> <<num(1, 4), num(6, 7), num(9, 10),
                      num(h0, h0 + 1), num(m0, m0 + 1)>>]
       ELSE [ok |-> FALSE, dt |-> DatetimeMin]

\* s1 < s2 on strings, as list.sort() compares them
RECURSIVE StrLess(_, _)
StrLess(a, b) ==
    IF a = <<>> \/ b = <<>> THEN a = <<>> /\ b # <<>>
    ELSE IF Head(a) # Head(b) THEN Ord[Head(a)] < Ord[Head(b)]
    ELSE StrLess(Tail(a), Tail(b))

\* sorted(S): the strings of S in ascending order
RECURSIVE SortStrings(_)
SortStrings(S) ==
    IF S = {} THEN <<>>
    ELSE LET m == CHOOSE x \in S : \A y \in S : x = y \/ StrLess(x, y)
         IN <<m>> \o SortStrings(S \ {m})

-----------------------------------------------------------------------------
(* Link labels: get_links, lines 94-102 and 116-118 *)

\* str.lower() on the words of the model's labels
LowerTable ==
    [Monday |-> "monday", Saturday |-> "saturday", March |-> "march",
     February |-> "february", Corrected |-> "corrected", CORRECTED |-> "corrected",
     Statement |-> "statement", Zip |-> "zip", Code |-> "code", Cases |-> "cases",
     Press |-> "press"]

Lower(tok) == IF tok \in DOMAIN LowerTable THEN LowerTable[tok] ELSE tok

\* the tokens that stand for characters outside \x00-\x7f
NonAscii == {"NBSP", "EMDASH"}

\* the tokens of string.punctuation
Punctuation == {",", ".", "-", ":", "(", ")"}

\* re.sub(' +', ' ', text): every run of spaces becomes one space
RECURSIVE Collapse(_)
Collapse(text) ==
    IF Len(text) <= 1 THEN text
    ELSE IF text[1] = SP /\ text[2] = SP THEN Collapse(Tail(text))
    ELSE <<text[1]>> \o Collapse(Tail(text))

\* lines 94-100: the label of an anchor as get_links keys it
Normalize(raw) ==
    LET low == [i \in 1..Len(raw) |-> Lower(raw[i])]
        asc == [i \in 1..Len(raw) |-> IF low[i] \in NonAscii THEN SP ELSE low[i]]
        pun == [i \in 1..Len(raw) |-> IF asc[i] \in Punctuation THEN SP ELSE asc[i]]
    IN Collapse(pun)

\* line 102: re.search('statement|zip code', text)
Excluded(text) ==
    \/ "statement" \in Range(text)
    \/ \E i \in 1..(Len(text) - 2) :
          text[i] = "zip" /\ text[i + 1] = SP /\ text[i + 2] = "code"

\* str.strip(): leading and trailing spaces removed
RECURSIVE Strip(_)
Strip(text) ==
    IF text = <<>> THEN text
    ELSE IF Head(text) = SP THEN Strip(Tail(text))
    ELSE IF text[Len(text)] = SP THEN Strip(SubSeq(text, 1, Len(text) - 1))
    ELSE text

\* line 118: text.replace('corrected', '').strip()
UncorrectedCollapsed(text) ==
    LET keep(t) == t # "corrected" IN Strip(Collapse(SelectSeq(text, keep)))

Uncorrected(text) ==
    LET keep(t) == t # "corrected" IN Strip(SelectSeq(text, keep))

-----------------------------------------------------------------------------
(* DateLabelParser: get_links, lines 129-134 *)

\* what %A, %B, %d, %Y and %I%p accept, and the number each stands for
Weekdays == {"monday", "tuesday", "wednesday", "thursday", "friday",
             "saturday", "sunday"}

MonthNum == ("january" :> 1) @@ ("february" :> 2) @@ ("march" :> 3)
            @@ ("april" :> 4) @@ ("may" :> 5) @@ ("june" :> 6) @@ ("july" :> 7)
            @@ ("august" :> 8) @@ ("september" :> 9) @@ ("october" :> 10)
            @@ ("november" :> 11) @@ ("december" :> 12)

DayNum == ("1" :> 1) @@ ("15" :> 15) @@ ("16" :> 16) @@ ("17" :> 17)
          @@ ("28" :> 28) @@ ("29" :> 29) @@ ("30" :> 30) @@ ("31" :> 31)

YearNum == ("2019" :> 2019) @@ ("2020" :> 2020) @@ ("2021" :> 2021)

HourNum == ("12am" :> 0) @@ ("9am" :> 9) @@ ("12pm" :> 12) @@ ("2pm" :> 14)
           @@ ("5pm" :> 17)

\* the year strptime gives a datetime when the format has no %Y
DefaultYear == 1900

\* line 133: the year forced on a label without one
ForcedYear == 2020

\* the words of a text, if words and single spaces alternate in it
Words(text) == [i \in 1..((Len(text) + 1) \div 2) |-> text[2 * i - 1]]

Alternates(text) ==
    /\ Len(text) % 2 = 1
    /\ \A i \in 1..Len(text) : (text[i] = SP) <=> (i % 2 = 0)

\* datetime.datetime.strptime(text, '%A %B %d %Y %I%p') with withYear, and
\* strptime(text, '%A %B %d %I%p') without.  A space of the format matches a
\* run of spaces; the text must match from its first to its last character.
StrptimeLabel(text, withYear) ==
    LET c  == Collapse(text)
        w  == Words(c)
        k  == IF withYear THEN 5 ELSE 4
        y  == IF withYear THEN YearNum[w[4]] ELSE DefaultYear
    IN IF /\ Alternates(c)
          /\ Len(w) = k
          /\ w[1] \in Weekdays
          /\ w[2] \in DOMAIN MonthNum
          /\ w[3] \in DOMAIN DayNum
          /\ (withYear => w[4] \in DOMAIN YearNum)
          /\ w[k] \in DOMAIN HourNum
          /\ ValidDate(y, MonthNum[w[2]], DayNum[w[3]])
       THEN [ok |-> TRUE, dt |-> <<y, MonthNum[w[2]], DayNum[w[3]], HourNum[w[k]], 0>>]
       ELSE [ok |-> FALSE, dt |-> DatetimeMin]

\* dt.replace(year=y)
ReplaceYear(dt, y) ==
    IF ValidDate(y, dt[2], dt[3])
    THEN [ok |-> TRUE, dt |-> [dt EXCEPT ![1] = y]]
    ELSE [ok |-> FALSE, dt |-> DatetimeMin]

\* lines 129-134: the datetime of a label and its file-name encoding;
\* ok = FALSE stands for the ValueError of strptime
ParseLabel(text) ==
    LET withYear == "2020" \in Range(text)
        p == StrptimeLabel(text, withYear)
        q == IF withYear \/ ~p.ok THEN p ELSE ReplaceYear(p.dt, ForcedYear)
    IN [ok |-> q.ok, explicit |-> withYear, replaced |-> ~withYear /\ p.ok,
        dt |-> q.dt,
        key |-> IF q.ok THEN Strftime(q.dt, FILE_DT_FMT) ELSE <<>>]

-----------------------------------------------------------------------------
(* LinkCatalog: get_links *)

\* line 93: soup.find_all('a', href=re.compile(HREF_ROOT))
HrefMatches(a) == HREF_ROOT \in Range(a.href)

\* the first segments of the model's hrefs that start with '/'
RootedPaths == {HREF_ROOT, "/news/"}

\* lines 106-108: a href that starts with '/' is completed with the domain
FullUrl(href) ==
    IF href # <<>> /\ href[1] \in RootedPaths THEN <<DOMAIN_ROOT>> \o href ELSE href

\* lines 93-111: the dictionary label -> url of the anchors kept
RECURSIVE ScanLinks(_, _)
ScanLinks(anchors, d) ==
    IF anchors = <<>> THEN d
    ELSE LET a    == Head(anchors)
             text == Normalize(a.text)
         IN IF ~HrefMatches(a) \/ Excluded(text)
            THEN ScanLinks(Tail(anchors), d)
            ELSE ScanLinks(Tail(anchors), DictSet(d, text, FullUrl(a.href)))

\* lines 114-125, over the keys the dictionary had when the loop started;
\* err = "UncorrectedLinkMissing" stands for sys.exit("ERROR: uncorrected
\* link not found")
RECURSIVE Supersede(_, _)
Supersede(keys, d) ==
    IF keys = <<>> THEN [err |-> "", links |-> d]
    ELSE LET text == Head(keys)
             uncorrected == Uncorrected(text)
         IN IF "corrected" \notin Range(text) THEN Supersede(Tail(keys), d)
            ELSE IF DictHas(d, uncorrected)
            THEN Supersede(Tail(keys),
                           DictDel(DictSet(d, uncorrected, DictGet(d, text)), text))
            ELSE [err |-> "UncorrectedLinkMissing", links |-> d]

\* lines 128-136, over the keys the dictionary had when the loop started;
\* err = "ValueError" stands for the exception of strptime
RECURSIVE Rekey(_, _)
Rekey(keys, d) ==
    IF keys = <<>> THEN [err |-> "", links |-> d]
    ELSE LET text == Head(keys)
             p    == ParseLabel(text)
         IN IF ~p.ok THEN [err |-> "ValueError", links |-> d]
            ELSE Rekey(Tail(keys), DictDel(DictSet(d, p.key, DictGet(d, text)), text))

\* get_links(soup): the catalog file-name encoding -> url, or the error
get_links(anchors) ==
    LET scanned == ScanLinks(anchors, <<>>)
        merged  == Supersede(DictKeys(scanned), scanned)
    IN IF merged.err # "" THEN merged
       ELSE Rekey(DictKeys(merged.links), merged.links)

-----------------------------------------------------------------------------
(* FieldExtractor: search_for and REGEXS *)

\* str.lower() of the words of a bulletin, for re.IGNORECASE
FoldTable ==
    [There |-> "there", THERE |-> "there", ARE |-> "are", ICU |-> "icu",
     Deaths |-> "deaths", People |-> "people", CONFIRMED |-> "confirmed",
     CASES |-> "cases"]

Fold(w) == IF w \in DOMAIN FoldTable THEN FoldTable[w] ELSE w

\* the words of the model that start with another word of a pattern
PrefixPairs == {<<"icu", "icus">>, <<"patient", "patients">>,
                <<"quarantine", "quarantined">>, <<"of", "often">>,
                <<"cases", "caseship">>}

StartsWith(w, lit) == Fold(w) = lit \/ <<lit, Fold(w)>> \in PrefixPairs

\* the digits a word ends with: what (\d+) matches at the end of the word
TrailingDigits ==
    ("1" :> "1") @@ ("3" :> "3") @@ ("5" :> "5") @@ ("7" :> "7") @@ ("12" :> "12")
    @@ ("30" :> "30") @@ ("142" :> "142") @@ ("143" :> "143") @@ ("1,234" :> "234")

AllDigits(w) == w \in DOMAIN TrailingDigits /\ TrailingDigits[w] = w

\* A pattern is the words before its group (\d+) and the elements after it.
\* Adjacent words of a text are one space apart; NL is a newline between two
\* words.  word: the word itself; start: a word that starts with it (the
\* pattern ends there, or goes on with .*); gap: .* followed by a space.
Word(ws) == [kind |-> "word", ws |-> ws]

Start(ws) == [kind |-> "start", ws |-> ws]

Gap == [kind |-> "gap", ws |-> {}]

REGEXS == <<
    [pre |-> <<"there", "are">>,
     post |-> <<Word({"confirmed"}), Start({"cases"})>>],
    [pre |-> <<"deaths", "related", "to", "covid-19">>,
     post |-> <<Start({"patient"})>>],
    [pre |-> <<>>,
     post |-> <<Word({"people"}), Word({"are"}), Start({"hospitalized"})>>],
    [pre |-> <<>>,
     post |-> <<Start({"of", "are"}), Gap, Word({"in"}), Start({"icu"})>>],
    [pre |-> <<>>,
     post |-> <<Word({"people"}), Word({"in", "into"}), Word({"mandatory"}),
                Start({"quarantine"})>>] >>

\* the elements els match the words of text from position j on
RECURSIVE MatchRest(_, _, _)
MatchRest(els, text, j) ==
    IF els = <<>> THEN TRUE
    ELSE LET e == Head(els) IN
         IF e.kind = "gap"
         THEN \E k \in j..Len(text) :
                 /\ \A i \in j..(k - 1) : text[i] # NL
                 /\ MatchRest(Tail(els), text, k)
         ELSE /\ j <= Len(text)
              /\ IF e.kind = "word" THEN Fold(text[j]) \in e.ws
                 ELSE \E lit \in e.ws : StartsWith(text[j], lit)
              /\ MatchRest(Tail(els), text, j + 1)

\* the pattern matches text with its first character in the word at s: the
\* group is the word after pre, whole when words come before it
MatchAt(regex, text, s) ==
    LET n == Len(regex.pre)
    IN /\ s + n <= Len(text)
       /\ \A i \in 1..n : Fold(text[s + i - 1]) = regex.pre[i]
       /\ text[s + n] \in DOMAIN TrailingDigits
       /\ (n > 0 => AllDigits(text[s + n]))
       /\ MatchRest(regex.post, text, s + n + 1)

Group1(regex, text, s) == TrailingDigits[text[s + Len(regex.pre)]]

\* the rightmost match before position s, not the leftmost after it
RECURSIVE ReSearchLast(_, _, _)
ReSearchLast(regex, text, s) ==
    LET e == Len(text) + 1 - s
    IN IF e < 1 THEN 0
       ELSE IF MatchAt(regex, text, e) THEN e
       ELSE ReSearchLast(regex, text, s + 1)

\* re.search(regex, text, re.IGNORECASE) from position s on: the leftmost match
RECURSIVE ReSearch(_, _, _)
ReSearch(regex, text, s) ==
    IF s > Len(text) THEN 0
    ELSE IF MatchAt(regex, text, s) THEN s
    ELSE ReSearch(regex, text, s + 1)

\* lines 268-277
search_for(regex, text) ==
    LET search == ReSearch(regex, text, 1)
    IN IF search # 0 THEN Group1(regex, text, search) ELSE "n/a"

\* lines 256-260: the row of one bulletin
Row(dt, text) ==
    <<Strftime(dt, SHEET_DT_FMT), None>>
    \o [i \in 1..Len(REGEXS) |-> search_for(REGEXS[i], text)]

-----------------------------------------------------------------------------
(* The bulletins on the web, the cache and the sheet *)

\* requests.get(url).content: the bytes served at a url, named by its path
WebContent(url) == url[Len(url)]

\* A run of two or more spaces, and a newline that follows the space
\* between two words, in the text PyPDF2 extracts from a page
DSP == "  "

BR == " \n"

\* PyPDF2.PdfFileReader(filepath).pages, page by page the words of
\* extractText(); a content outside the table is no PDF and raises
PdfPages ==
    ("b1.pdf" :> << <<"There", "are", "142", "confirmed", "cases", DSP,
                      "12", "people", BR, "are", "hospitalized">> >>)
    @@ ("b2.pdf" :> << <<"There", "are", "143", "confirmed", "cases">>,
                       <<"5", "of", "the", "12", "are", "in", "ICU">> >>)
    @@ ("b2c.pdf" :> << <<"There", "are", "142", "confirmed", "cases">>,
                        <<"5", "of", "the", "12", "are", "in", "ICU">> >>)
    @@ ("b3.pdf" :> << <<"Deaths", "related", "to", "covid-19", "3", "patients",
                         DSP, "30", "people", "in", "mandatory", "quarantine">> >>)

\* lines 286-289: the text of one page
PageText(page) ==
    LET keep(t) == t # BR
        joined  == SelectSeq(page, keep)
    IN [i \in 1..Len(joined) |-> IF joined[i] = DSP THEN NL ELSE joined[i]]
       \o <<NL, PAGE_RULE, NL>>

\* lines 280-293; err = "PdfReadError" stands for the exception of PyPDF2
parse_pdf(content) ==
    IF content \notin DOMAIN PdfPages THEN [err |-> "PdfReadError", out |-> <<>>]
    ELSE [err |-> "",
          out |-> Flatten([i \in 1..Len(PdfPages[content]) |->
                              PageText(PdfPages[content][i])])]

\* line 150: os.path.join(PDF_DIR, dt + '.pdf'), relative to PDF_DIR
FilePath(dt) == dt \o PDF_EXT

\* line 151 without the test: every bulletin of the catalog is downloaded
IsFileNever(cache, filepath) == FALSE

\* line 151: os.path.isfile(filepath)
IsFile(cache, filepath) == filepath \in DOMAIN cache

\* line 243: os.path.basename(pdf)[:-4]
Basename(pdf) == SubSeq(pdf, 1, Len(pdf) - 4)

\* line 247 with < for <=
SkipPdfStrictlyBefore(dt, last) == TupleLess(dt, last)

\* line 247: the bulletin is at or before the last update
SkipPdf(dt, last) == DtLeq(dt, last)

\* s1 > s2 first: the list sorted in reverse
RECURSIVE SortStringsReversed(_)
SortStringsReversed(S) ==
    IF S = {} THEN <<>>
    ELSE LET m == CHOOSE x \in S : \A y \in S : x = y \/ StrLess(y, x)
         IN <<m>> \o SortStringsReversed(S \ {m})

\* lines 234-235 with the files in descending order
SortedPdfsReversed(cache) == SortStringsReversed(DOMAIN cache)

\* lines 234-235: glob.glob(os.path.join(pdf_dir, '*.pdf')) and pdfs.sort()
SortedPdfs(cache) == SortStrings(DOMAIN cache)

\* lines 241-263, over the sorted file names
RECURSIVE ParseLoop(_, _, _, _)
ParseLoop(pdfs, cache, last, rows) ==
    IF pdfs = <<>> THEN [err |-> "", info |-> rows]
    ELSE LET pdf == Head(pdfs)
             p   == StrptimeChars(Basename(pdf), FILE_DT_FMT)
             t   == parse_pdf(cache[pdf])
         IN IF ~p.ok THEN [err |-> "ValueError", info |-> rows]
            ELSE IF SkipPdf(p.dt, last) THEN ParseLoop(Tail(pdfs), cache, last, rows)
            ELSE IF t.err # "" THEN [err |-> t.err, info |-> rows]
            ELSE ParseLoop(Tail(pdfs), cache, last, Append(rows, Row(p.dt, t.out)))

\* parse_pdfs(pdf_dir, last_update)
parse_pdfs(cache, last) == ParseLoop(SortedPdfs(cache), cache, last, <<>>)

\* lines 201-204 with a range that holds nothing
ColumnAEmpty(rows) == <<>>

\* lines 201-204: the values of column A below the header
ColumnA(rows) == [i \in 1..Len(rows) |-> <<rows[i][1]>>]

\* lines 207-210 with values[0] for values[-1]
FirstRow(values) == 1

\* lines 207-210: the row of the column that holds the last update
LastRow(values) == Len(values)

\* get_last_update(sheet_api, sheet_id, datetime_col)
get_last_update(rows) ==
    LET values == ColumnA(rows)
    IN IF Len(values) > 0
       THEN StrptimeChars(values[LastRow(values)][1], SHEET_DT_FMT)
       ELSE [ok |-> TRUE, dt |-> DatetimeMin]

-----------------------------------------------------------------------------
(* The archive pages of the model *)

Anchor(text, href) == [text |-> text, href |-> href]

Bulletin(name) == <<HREF_ROOT, name>>

\* Monday March 16 2020 2PM, the bulletin b2.pdf
AMon == Anchor(<<"Monday", ",", SP, "March", SP, "16", ",", SP, "2020", SP, "2pm">>,
               Bulletin("b2.pdf"))

\* its corrected version
AMonCorrected ==
    Anchor(<<"CORRECTED", SP, "-", SP, "Monday", ",", SP, "March", SP, "16", ",",
             SP, "2020", SP, "2pm", "NBSP">>,
           <<DOMAIN_ROOT, HREF_ROOT, "b2c.pdf">>)

\* the same bulletin, corrected, with the word inside the label
AMonCorrectedInside ==
    Anchor(<<"Monday", SP, "Corrected", SP, "March", SP, "16", SP, "2020", SP, "2pm">>,
           Bulletin("b2c.pdf"))

\* the same date without its year
AMonNoYear == Anchor(<<"Monday", SP, "March", SP, "16", SP, "2pm">>, Bulletin("b1.pdf"))

\* Sunday March 15 9AM
ASun == Anchor(<<"sunday", SP, "March", SP, "15", SP, "9am">>, Bulletin("b1.pdf"))

\* Tuesday March 17 2020 5PM
ATue == Anchor(<<"tuesday", SP, "March", SP, "17", SP, "2020", SP, "5pm">>,
               Bulletin("b3.pdf"))

\* the same label with another href
ATueAgain == Anchor(<<"tuesday", SP, "March", SP, "17", SP, "2020", SP, "5pm">>,
                    Bulletin("b1.pdf"))

\* a bulletin whose url serves an error page
ATueBroken == Anchor(<<"tuesday", SP, "March", SP, "17", SP, "2020", SP, "5pm">>,
                     Bulletin("404.html"))

\* Saturday February 29 without its year
ASatLeap == Anchor(<<"saturday", SP, "February", SP, "29", SP, "2pm">>,
                   Bulletin("b1.pdf"))

\* a corrected bulletin whose first version is not listed
AOrphan == Anchor(<<"sunday", SP, "March", SP, "1", SP, "9am", SP, "Corrected">>,
                  Bulletin("b1.pdf"))

AStatement == Anchor(<<"Statement", SP, "March", SP, "16">>, Bulletin("s.pdf"))

AZipCode == Anchor(<<"Cases", SP, "by", SP, "Zip", SP, "Code">>, Bulletin("z.pdf"))

ANews == Anchor(<<"Press", SP, "release">>, <<"/news/", "n.pdf">>)

AMalformed == Anchor(<<"Press", SP, "release">>, Bulletin("p.pdf"))

\* the anchors a generated listing is made of
Anchors == {AMon, AMonCorrected, AMonCorrectedInside, AMonNoYear, ASun, ATue,
            ATueAgain, ASatLeap, AOrphan, AStatement, ANews, AMalformed}

\* the sequences of at most n distinct elements of S
RECURSIVE SeqsUpTo(_, _)
SeqsUpTo(S, n) ==
    IF n = 0 THEN {<<>>}
    ELSE LET shorter == SeqsUpTo(S, n - 1)
         IN shorter \cup {Append(q, x) : q \in {r \in shorter : Len(r) = n - 1},
                                         x \in S}

Distinct(q) == \A i, j \in 1..Len(q) : i # j => q[i] # q[j]

Listings == {q \in SeqsUpTo(Anchors, MaxLinks) : Distinct(q)}

\* the archive page as successive runs of main() may find it
PipelineListings ==
    { <<AMon>>,
      <<ATue>>,
      <<ASun, AMon>>,
      <<AMon, AMonCorrected, AZipCode, ATue>>,
      <<ASun, ANews, AMon, ATue>>,
      <<ASun, ATueBroken>>,
      <<AMon, AMalformed>>,
      <<AOrphan, AMon>> }

-----------------------------------------------------------------------------
(* main(): one run after another, each on the archive page of its time *)

EmptyCache == [f \in {} |-> ""]

NotParsed == [ok |-> FALSE, explicit |-> FALSE, replaced |-> FALSE,
              dt |-> DatetimeMin, key |-> <<>>]

PureIdle == label = <<>> /\ parsed = NotParsed /\ txt = <<>> /\ vals = <<>>

Init ==
    /\ pc = "IDLE"
    /\ runs = 0
    /\ listing = <<>>
    /\ links = <<>>
    /\ todo = <<>>
    /\ files = EmptyCache
    /\ sheet = <<>>
    /\ last_update = DatetimeMin
    /\ info = <<>>
    /\ fetched = <<>>
    /\ appends = 0
    /\ sheet0 = <<>>
    /\ files0 = EmptyCache
    /\ prev = [listing |-> <<>>, outcome |-> "NONE"]
    /\ failure = ""
    /\ PureIdle

\* how the run that has ended went
Outcome ==
    IF pc = "ABORTED" THEN "ABORTED"
    ELSE IF pc = "DONE" THEN (IF appends > 0 THEN "APPEND" ELSE "NO_OP")
    ELSE "NONE"

\* the program is invoked: nothing of an earlier run is left but the cache
\* and the sheet
StartRun ==
    /\ pc \in {"IDLE", "DONE", "ABORTED"}
    /\ runs < MaxRuns
    /\ \E page \in PipelineListings : listing' = page
    /\ runs' = runs + 1
    /\ pc' = "FETCH_LISTING"
    /\ links' = <<>> /\ todo' = <<>> /\ info' = <<>>
    /\ last_update' = DatetimeMin
    /\ fetched' = <<>> /\ appends' = 0 /\ failure' = ""
    /\ sheet0' = sheet /\ files0' = files
    /\ prev' = [listing |-> listing, outcome |-> Outcome]
    /\ UNCHANGED <<files, sheet>>
    /\ UNCHANGED pureVars

\* sys.exit(message), or an exception nothing catches
Abort(reason) ==
    /\ pc' = "ABORTED"
    /\ failure' = reason

\* line 50, lines 75-83: the archive page is fetched
GetSoup ==
    /\ pc = "FETCH_LISTING"
    /\ pc' = "GET_LINKS"
    /\ UNCHANGED <<runs, listing, links, todo, files, sheet, last_update, info,
                   fetched, appends, sheet0, files0, prev, failure>>
    /\ UNCHANGED pureVars

\* lines 79-80: requests.get raises
GetSoupFails ==
    /\ pc = "FETCH_LISTING"
    /\ Abort("ConnectionError")
    /\ UNCHANGED <<runs, listing, links, todo, files, sheet, last_update, info,
                   fetched, appends, sheet0, files0, prev>>
    /\ UNCHANGED pureVars

\* line 53: links = get_links(soup)
GetLinks ==
    /\ pc = "GET_LINKS"
    /\ LET r == get_links(listing)
       IN IF r.err = ""
          THEN /\ links' = r.links
               /\ todo' = r.links
               /\ pc' = "DOWNLOAD_NEW"
               /\ UNCHANGED failure
          ELSE /\ Abort(r.err)
               /\ UNCHANGED <<links, todo>>
    /\ UNCHANGED <<runs, listing, files, sheet, last_update, info,
                   fetched, appends, sheet0, files0, prev>>
    /\ UNCHANGED pureVars

\* lines 149-151: the next item of links has its file
DownloadSkip ==
    /\ pc = "DOWNLOAD_NEW"
    /\ todo # <<>>
    /\ IsFile(files, FilePath(Head(todo)[1]))
    /\ todo' = Tail(todo)
    /\ UNCHANGED <<pc, runs, listing, links, files, sheet, last_update, info,
                   fetched, appends, sheet0, files0, prev, failure>>
    /\ UNCHANGED pureVars

\* lines 152-154 and 157-168: it has none, and the url is downloaded to it
DownloadPdf ==
    /\ pc = "DOWNLOAD_NEW"
    /\ todo # <<>>
    /\ ~IsFile(files, FilePath(Head(todo)[1]))
    /\ fetched' = Append(fetched, Head(todo)[2])
    /\ files' = (FilePath(Head(todo)[1]) :> WebContent(Head(todo)[2])) @@ files
    /\ todo' = Tail(todo)
    /\ UNCHANGED <<pc, runs, listing, links, sheet, last_update, info,
                   appends, sheet0, files0, prev, failure>>
    /\ UNCHANGED pureVars

\* lines 163-164: requests.get raises
DownloadPdfFails ==
    /\ pc = "DOWNLOAD_NEW"
    /\ todo # <<>>
    /\ ~IsFile(files, FilePath(Head(todo)[1]))
    /\ fetched' = Append(fetched, Head(todo)[2])
    /\ Abort("ConnectionError")
    /\ UNCHANGED <<runs, listing, links, todo, files, sheet, last_update, info,
                   appends, sheet0, files0, prev>>
    /\ UNCHANGED pureVars

\* line 56: download_pdfs returns
DownloadDone ==
    /\ pc = "DOWNLOAD_NEW"
    /\ todo = <<>>
    /\ pc' = "READ_FRONTIER"
    /\ UNCHANGED <<runs, listing, links, todo, files, sheet, last_update, info,
                   fetched, appends, sheet0, files0, prev, failure>>
    /\ UNCHANGED pureVars

\* lines 59-60: last_update = get_last_update(...)
GetLastUpdate ==
    /\ pc = "READ_FRONTIER"
    /\ LET r == get_last_update(sheet)
       IN IF r.ok
          THEN /\ last_update' = r.dt
               /\ pc' = "EXTRACT"
               /\ UNCHANGED failure
          ELSE /\ Abort("ValueError")
               /\ UNCHANGED last_update
    /\ UNCHANGED <<runs, listing, links, todo, files, sheet, info,
                   fetched, appends, sheet0, files0, prev>>
    /\ UNCHANGED pureVars

\* lines 59-60: the sheet service cannot be reached
GetLastUpdateFails ==
    /\ pc = "READ_FRONTIER"
    /\ Abort("HttpError")
    /\ UNCHANGED <<runs, listing, links, todo, files, sheet, last_update, info,
                   fetched, appends, sheet0, files0, prev>>
    /\ UNCHANGED pureVars

\* lines 63-68 with the rows appended as they are extracted: those of the
\* bulletins before one that cannot be read are in the sheet when the run
\* aborts
ParsePdfsCommittingRows ==
    /\ pc = "EXTRACT"
    /\ LET r == parse_pdfs(files, last_update)
       IN IF r.err = ""
          THEN /\ info' = r.info
               /\ pc' = IF Len(r.info) = 0 THEN "NO_OP" ELSE "APPEND"
               /\ UNCHANGED <<failure, sheet>>
          ELSE /\ Abort(r.err)
               /\ sheet' = sheet \o r.info
               /\ UNCHANGED info
    /\ UNCHANGED <<runs, listing, links, todo, files, last_update,
                   fetched, appends, sheet0, files0, prev>>
    /\ UNCHANGED pureVars

\* lines 63-68: info = parse_pdfs(PDF_DIR, last_update), and the test of it
ParsePdfs ==
    /\ pc = "EXTRACT"
    /\ LET r == parse_pdfs(files, last_update)
       IN IF r.err = ""
          THEN /\ info' = r.info
               /\ pc' = IF Len(r.info) = 0 THEN "NO_OP" ELSE "APPEND"
               /\ UNCHANGED failure
          ELSE /\ Abort(r.err)
               /\ UNCHANGED info
    /\ UNCHANGED <<runs, listing, links, todo, files, sheet, last_update,
                   fetched, appends, sheet0, files0, prev>>
    /\ UNCHANGED pureVars

\* lines 66-68: print("no new information to update"); sys.exit(0)
NoOp ==
    /\ pc = "NO_OP"
    /\ pc' = "DONE"
    /\ UNCHANGED <<runs, listing, links, todo, files, sheet, last_update, info,
                   fetched, appends, sheet0, files0, prev, failure>>
    /\ UNCHANGED pureVars

\* line 71, lines 216-227: the rows are appended below the last row
AppendToSheet ==
    /\ pc = "APPEND"
    /\ sheet' = sheet \o info
    /\ appends' = appends + 1
    /\ pc' = "DONE"
    /\ UNCHANGED <<runs, listing, links, todo, files, last_update, info,
                   fetched, sheet0, files0, prev, failure>>
    /\ UNCHANGED pureVars

Next ==
    \/ StartRun
    \/ GetSoup
    \/ GetSoupFails
    \/ GetLinks
    \/ DownloadSkip
    \/ DownloadPdf
    \/ DownloadPdfFails
    \/ DownloadDone
    \/ GetLastUpdate
    \/ GetLastUpdateFails
    \/ ParsePdfs
    \/ NoOp
    \/ AppendToSheet

Spec == Init /\ [][Next]_vars

-----------------------------------------------------------------------------
(* Properties of main() over its runs *)

\* the datetime a file of the cache is named after
StampOfFile(f) == StrptimeChars(Basename(f), FILE_DT_FMT).dt

\* the datetime in column A of a row
StampOfRow(row) == StrptimeChars(row[1], SHEET_DT_FMT).dt

CachedStamps == {StampOfFile(f) : f \in DOMAIN files}

Stamps(rows) == {StampOfRow(rows[i]) : i \in 1..Len(rows)}

\* the last entry of the timestamp column, the minimum datetime if it is empty
LastRecorded(rows) ==
    IF rows = <<>> THEN DatetimeMin ELSE StampOfRow(rows[Len(rows)])

StrictlyIncreasing(rows) ==
    \A i, j \in 1..Len(rows) :
        i < j => TupleLess(StampOfRow(rows[i]), StampOfRow(rows[j]))

\* the cached datetimes strictly after a datetime
CachedAfter(cache, dt) ==
    {StampOfFile(f) : f \in {g \in DOMAIN cache : TupleLess(dt, StampOfFile(g))}}

\* parse_pdfs has returned in this run
Selected == pc \in {"APPEND", "NO_OP", "DONE"}

\* C1: parse_pdfs, given what get_last_update returned, returns no timestamp
\* at or before the last recorded one; when the timestamp column is empty the
\* last recorded one is the minimum datetime and every cached timestamp is
\* returned, in ascending order.
C1_SelectAfterLastRecorded ==
    pc \in {"APPEND", "NO_OP"} =>
        /\ last_update = LastRecorded(sheet)
        /\ \A i \in 1..Len(info) : TupleLess(last_update, StampOfRow(info[i]))
        /\ sheet = <<>> =>
              /\ last_update = DatetimeMin
              /\ Stamps(info) = CachedStamps
              /\ Len(info) = Cardinality(DOMAIN files)
              /\ StrictlyIncreasing(info)

\* a selection from a store that is not empty, with a cached bulletin at or
\* before the last recorded timestamp left out and a later one taken
C1_Witness ==
    /\ pc = "APPEND"
    /\ sheet # <<>>
    /\ \E f \in DOMAIN files : DtLeq(StampOfFile(f), last_update)

\* C2: from an empty store on, the rows of a run are in strictly increasing
\* timestamp order and all after the last entry of the timestamp column, so
\* the column is strictly increasing and holds no timestamp twice.
C2_StoreStrictlyIncreasing ==
    /\ StrictlyIncreasing(sheet)
    /\ Cardinality(Stamps(sheet)) = Len(sheet)
    /\ pc = "APPEND" =>
          /\ StrictlyIncreasing(info)
          /\ \A i \in 1..Len(info) :
                TupleLess(LastRecorded(sheet), StampOfRow(info[i]))

\* a later run has appended to the rows an earlier run stored at once
C2_Witness ==
    /\ pc = "DONE"
    /\ Len(sheet0) >= 2
    /\ Len(sheet) > Len(sheet0)

\* the run in progress repeats a run that succeeded, on a listing with no
\* new entry
Rerun ==
    /\ pc # "IDLE"
    /\ prev.outcome \in {"APPEND", "NO_OP"}
    /\ Range(listing) \subseteq Range(prev.listing)

\* C3: a run after a successful run, on a listing with no new entry and the
\* store as that run left it, appends no row: it never calls the append; when
\* it ends it has passed NO_OP; and on the same listing nothing but an
\* unreachable archive page or sheet service keeps it from ending so.
C3_RerunIsNoOp ==
    Rerun =>
        /\ appends = 0
        /\ sheet = sheet0
        /\ pc # "APPEND"
        /\ fetched = <<>>
        /\ Selected => info = <<>>
        /\ listing = prev.listing =>
              /\ failure \in {"", "ConnectionError", "HttpError"}
              /\ failure = "ConnectionError" => links = <<>>

\* the rerun of a run that appended rows has ended in NO_OP
C3_Witness ==
    /\ Rerun
    /\ prev.outcome = "APPEND"
    /\ listing = prev.listing
    /\ pc = "DONE"

\* C4: a run that aborts leaves the store as it found it, and the store is
\* written at most once in a run, by the one append call, in the APPEND
\* state, after every earlier state succeeded.
C4_FailFastSingleAppend ==
    [][ /\ sheet' # sheet =>
              /\ pc = "APPEND" /\ pc' = "DONE"
              /\ failure = ""
              /\ appends = 0 /\ appends' = 1
              /\ sheet = sheet0
        /\ pc' = "ABORTED" => sheet' = sheet0' /\ appends' = 0
        /\ appends' <= 1 ]_vars

\* a run that had downloaded a bulletin has aborted in EXTRACT
C4_Witness ==
    /\ pc = "ABORTED"
    /\ failure = "PdfReadError"
    /\ fetched # <<>>
    /\ sheet = sheet0

\* the urls of the catalog entries that had no file when the run started
ToFetch == {links[i][2] : i \in {j \in 1..Len(links) :
                                    FilePath(links[j][1]) \notin DOMAIN files0}}

\* C8: download_pdfs requests the catalog entries without a file, each once,
\* and writes no file that exists, whatever url the catalog gives it now;
\* when it has returned every catalog entry has its file; and over the runs
\* the content of a cached file never changes.
C8_CacheWriteOnce ==
    [][ /\ \A f \in DOMAIN files : f \in DOMAIN files' /\ files'[f] = files[f]
        /\ Range(fetched') \subseteq ToFetch'
        /\ Cardinality(Range(fetched')) = Len(fetched')
        /\ pc' \in {"READ_FRONTIER", "EXTRACT", "APPEND", "NO_OP", "DONE"} =>
              /\ Range(fetched') = ToFetch'
              /\ \A i \in 1..Len(links') : FilePath(links'[i][1]) \in DOMAIN files'
              /\ \A f \in DOMAIN files' \ DOMAIN files0' :
                    \E i \in 1..Len(links') :
                        /\ f = FilePath(links'[i][1])
                        /\ files'[f] = WebContent(links'[i][2]) ]_vars

\* download_pdfs has returned, having fetched a bulletin and having left the
\* file of another whose url is now that of its corrected version
C8_Witness ==
    /\ pc = "READ_FRONTIER"
    /\ fetched # <<>>
    /\ \E i \in 1..Len(links) :
          files[FilePath(links[i][1])] # WebContent(links[i][2])

\* a cached bulletin at or before the last recorded timestamp and not in the
\* store
Late(f, rows) ==
    /\ rows # <<>>
    /\ DtLeq(StampOfFile(f), LastRecorded(rows))
    /\ StampOfFile(f) \notin Stamps(rows)

\* C10: a bulletin whose file enters the cache at or before the last recorded
\* timestamp is left out by every run from then on and never gets into the
\* store; and the rows a run appends are the cached timestamps strictly
\* after the last recorded one, in the catalog of the run or not.
C10_LateBulletinNeverRecorded ==
    [][ /\ \A f \in DOMAIN files' \ DOMAIN files :
              (sheet # <<>> /\ DtLeq(StampOfFile(f), LastRecorded(sheet)))
                  => Late(f, sheet')
        /\ \A f \in DOMAIN files :
              Late(f, sheet) =>
                  /\ f \in DOMAIN files'
                  /\ Late(f, sheet')
                  /\ StampOfFile(f) \notin Stamps(info')
        /\ sheet' # sheet =>
              /\ Len(sheet') > Len(sheet)
              /\ SubSeq(sheet', 1, Len(sheet)) = sheet
              /\ Stamps(SubSeq(sheet', Len(sheet) + 1, Len(sheet')))
                     = CachedAfter(files, LastRecorded(sheet))
              /\ Len(sheet') - Len(sheet)
                     = Cardinality(CachedAfter(files, LastRecorded(sheet)))
        /\ pc' = "NO_OP" => CachedAfter(files', LastRecorded(sheet')) = {} ]_vars

\* a run has ended with a late bulletin in the cache and not in the store,
\* after appending a bulletin that its catalog does not list
C10_Witness ==
    /\ pc = "DONE"
    /\ \E f \in DOMAIN files : Late(f, sheet)
    /\ \E i \in (Len(sheet0) + 1)..Len(sheet) :
          \A j \in 1..Len(links) :
              StampOfFile(FilePath(links[j][1])) # StampOfRow(sheet[i])

-----------------------------------------------------------------------------
(* get_links on every listing of at most MaxLinks anchors *)

InitLinks ==
    /\ pc = "GET_LINKS"
    /\ runs = 1
    /\ listing \in Listings
    /\ links = <<>>
    /\ todo = <<>>
    /\ files = EmptyCache
    /\ sheet = <<>>
    /\ last_update = DatetimeMin
    /\ info = <<>>
    /\ fetched = <<>>
    /\ appends = 0
    /\ sheet0 = <<>>
    /\ files0 = EmptyCache
    /\ prev = [listing |-> <<>>, outcome |-> "NONE"]
    /\ failure = ""
    /\ PureIdle

NextLinks == GetLinks

SpecLinks == InitLinks /\ [][NextLinks]_vars

\* the dictionary after the loop of lines 93-111, and its labels
Scanned == ScanLinks(listing, <<>>)

ScannedLabels == Range(DictKeys(Scanned))

CorrectedLabels == {k \in ScannedLabels : "corrected" \in Range(k)}

\* the dictionary after the loop of lines 114-125
Merged == Supersede(DictKeys(Scanned), Scanned)

\* get_links has returned or has ended the run
Built == pc \in {"DOWNLOAD_NEW", "ABORTED"}

\* C5: for every label with the word "corrected", the base label is the label
\* without the word, its whitespace collapsed.  If a base label is not
\* listed, get_links fails with the missing-uncorrected-link error; if all
\* are (before or after their corrections) and the labels are dates, the
\* catalog maps the timestamp of each base label to the corrected url and
\* has no entry for the corrected label.  (Listings with two corrections of
\* one base label are left aside.)
C5_CorrectionRule ==
    (/\ Built
     /\ \A k1, k2 \in CorrectedLabels :
           k1 # k2 => UncorrectedCollapsed(k1) # UncorrectedCollapsed(k2))
    =>
    /\ (\E k \in CorrectedLabels : UncorrectedCollapsed(k) \notin ScannedLabels)
          => (pc = "ABORTED" /\ failure = "UncorrectedLinkMissing")
    /\ (/\ \A k \in CorrectedLabels : UncorrectedCollapsed(k) \in ScannedLabels
        /\ \A k \in ScannedLabels \ CorrectedLabels : ParseLabel(k).ok)
          => /\ pc = "DOWNLOAD_NEW"
             /\ \A k \in CorrectedLabels :
                   LET key == ParseLabel(UncorrectedCollapsed(k)).key
                   IN /\ DictHas(links, key)
                      /\ DictGet(links, key) = DictGet(Scanned, k)
                      /\ ~DictHas(links, k)

\* C6: when get_links succeeds the catalog has each timestamp once, and no
\* two labels that survive the correction rule have the same file-name
\* encoding: the re-key of lines 128-136 overwrites no entry.
C6_NoSilentOverwrite ==
    pc = "DOWNLOAD_NEW" =>
        /\ \A i, j \in 1..Len(links) : i # j => links[i][1] # links[j][1]
        /\ \A i, j \in 1..Len(Merged.links) :
              i # j => ParseLabel(Merged.links[i][1]).key
                          # ParseLabel(Merged.links[j][1]).key
        /\ Len(links) = Len(Merged.links)

-----------------------------------------------------------------------------
(* DateLabelParser on the labels of both formats *)

LabelWeekdays == {"saturday", "monday"}

LabelMonths == {"february", "march", "april"}

LabelDays == {"16", "28", "29", "30", "31"}

LabelYears == {"2020", "2021"}

LabelHours == {"2pm", "12am"}

ParseLabels ==
    {<<w, SP, m, SP, d, SP, h>> :
        w \in LabelWeekdays, m \in LabelMonths, d \in LabelDays, h \in LabelHours}
    \cup {<<w, SP, m, SP, d, SP, y, SP, h>> :
        w \in LabelWeekdays, m \in LabelMonths, d \in LabelDays,
        y \in LabelYears, h \in LabelHours}

PipeIdle ==
    /\ runs = 0
    /\ listing = <<>>
    /\ links = <<>>
    /\ todo = <<>>
    /\ files = EmptyCache
    /\ sheet = <<>>
    /\ last_update = DatetimeMin
    /\ info = <<>>
    /\ fetched = <<>>
    /\ appends = 0
    /\ sheet0 = <<>>
    /\ files0 = EmptyCache
    /\ prev = [listing |-> <<>>, outcome |-> "NONE"]
    /\ failure = ""

InitParse ==
    /\ pc = "PARSE_LABEL"
    /\ PipeIdle
    /\ label \in ParseLabels
    /\ parsed = NotParsed
    /\ txt = <<>>
    /\ vals = <<>>

\* lines 129-134 on one label
DateLabelParse ==
    /\ pc = "PARSE_LABEL"
    /\ parsed' = ParseLabel(label)
    /\ pc' = "PARSED"
    /\ UNCHANGED <<runs, listing, links, todo, files, sheet, last_update, info,
                   fetched, appends, sheet0, files0, prev, failure>>
    /\ UNCHANGED <<label, txt, vals>>

NextParse == DateLabelParse

SpecParse == InitParse /\ [][NextParse]_vars

\* the label has the year-less format and names a day of 2020
YearlessLabelOf2020(text) ==
    /\ Len(text) = 7
    /\ Alternates(text)
    /\ text[1] \in Weekdays
    /\ text[3] \in DOMAIN MonthNum
    /\ text[5] \in DOMAIN DayNum
    /\ text[7] \in DOMAIN HourNum
    /\ ValidDate(2020, MonthNum[text[3]], DayNum[text[5]])

\* C9: a label with "2020" is parsed with the explicit-year format and no
\* year is forced on it; a label without it that has the year-less format,
\* for any day of 2020, February 29 too, is parsed, and its year is 2020.
C9_YearInference ==
    pc = "PARSED" =>
        /\ "2020" \in Range(label) => (parsed.explicit /\ ~parsed.replaced)
        /\ ("2020" \notin Range(label) /\ YearlessLabelOf2020(label))
              => (parsed.ok /\ parsed.dt[1] = 2020)

-----------------------------------------------------------------------------
(* FieldExtractor on the texts of at most MaxSentences sentences *)

Sentences ==
    { <<"There", "are", "142", "confirmed", "cases">>,
      <<"THERE", "ARE", "7", "CONFIRMED", "CASES">>,
      <<"there", "are", "confirmed", "cases">>,
      <<"Deaths", "related", "to", "covid-19", "3", "patients">>,
      <<"deaths", "related", "to", "covid-19", "1,234", "patient">>,
      <<"12", "people", "are", "hospitalized">>,
      <<"1,234", "People", "are", "hospitalized">>,
      <<"5", "of", "the", "12", "are", "in", "ICU">>,
      <<"3", "are", NL, "in", "icu">>,
      <<"1", "often", "in", "icus">>,
      <<"30", "people", "into", "mandatory", "quarantined">>,
      <<NL, PAGE_RULE, NL>> }

Texts == {Flatten(q) : q \in SeqsUpTo(Sentences, MaxSentences)}

InitExtract ==
    /\ pc = "EXTRACT_ROW"
    /\ PipeIdle
    /\ label = <<>>
    /\ parsed = NotParsed
    /\ txt \in Texts
    /\ vals = <<>>

\* lines 256-260 on the text of one bulletin
ExtractRow ==
    /\ pc = "EXTRACT_ROW"
    /\ \E dt \in {<<2020, 3, 16, 14, 0>>, <<2020, 2, 29, 0, 0>>} :
          vals' = Row(dt, txt)
    /\ pc' = "EXTRACTED"
    /\ UNCHANGED <<runs, listing, links, todo, files, sheet, last_update, info,
                   fetched, appends, sheet0, files0, prev, failure>>
    /\ UNCHANGED <<label, parsed, txt>>

NextExtract == ExtractRow

SpecExtract == InitExtract /\ [][NextExtract]_vars

\* the positions of the text where pattern i matches
MatchesOf(i) == {s \in 1..Len(txt) : MatchAt(REGEXS[i], txt, s)}

Least(S) == CHOOSE s \in S : \A t \in S : s <= t

\* the row has one value per pattern after its two first columns, in the
\* order of the patterns: the group of the leftmost match, or else
\* the given value
RowIsFirstGroupsOr(sentinel) ==
    pc = "EXTRACTED" =>
        /\ Len(vals) = 2 + Len(REGEXS)
        /\ \A i \in 1..Len(REGEXS) :
              vals[2 + i] = IF MatchesOf(i) = {} THEN sentinel
                            ELSE Group1(REGEXS[i], txt, Least(MatchesOf(i)))

=============================================================================
